---------------------------- MODULE Spec2Model ----------------------------
(***************************************************************************)
(* Model of tools/schema_mapper.py: the schema field-mapping engine, and   *)
(* of the create-or-skip path of import_resumes.py through                 *)
(* src/airtable_client.py.                                                 *)
(*                                                                         *)
(* Strings are sequences of one-character strings.  Unrounded scores are   *)
(* exact rationals [n, d] (d > 0); scores stored in `candidates` are the   *)
(* result of round(score, 3), kept as an integer number of thousandths.    *)
(* Thresholds are thousandths too.                                         *)
(***************************************************************************)
EXTENDS Integers, Sequences, FiniteSets, TLC

VARIABLES internal_keys, remote_fields, auto_apply_threshold, accept_threshold,
          pc, pos, ret, candidates, raw, final_mapping, summary, first_result

VARIABLES configured, dry_run, dedupe_keys, file, ipc, exists, called, http,
          rec, details

\* the state of the import run
import_vars == <<configured, dry_run, dedupe_keys, file, ipc, exists, called,
                 http, rec, details>>

\* the state of the mapping run
mapping_vars == <<internal_keys, remote_fields, auto_apply_threshold,
                  accept_threshold, pc, pos, ret, candidates, raw,
                  final_mapping, summary, first_result>>

vars == <<mapping_vars, import_vars>>

-----------------------------------------------------------------------------
(* Bounds of the model *)

MaxKeys == 2

MaxRemote == 2

MaxFiles == 2

-----------------------------------------------------------------------------
(* Characters and str methods *)

UpperChars == <<"A","B","C","D","E","F","G","H","I","J","K","L","M",
                "N","O","P","Q","R","S","T","U","V","W","X","Y","Z">>

LowerChars == <<"a","b","c","d","e","f","g","h","i","j","k","l","m",
                "n","o","p","q","r","s","t","u","v","w","x","y","z">>

DigitChars == {"0","1","2","3","4","5","6","7","8","9"}

WhiteChars == {" ", "\t"}

Range(s) == {s[i] : i \in 1..Len(s)}

\* upper-case letter -> lower-case letter
UpperToLower ==
    [c \in {UpperChars[k] : k \in 1..26} |->
        LowerChars[CHOOSE k \in 1..26 : UpperChars[k] = c]]

\* str.lower() on one character
LowerChar(c) == IF c \in DOMAIN UpperToLower THEN UpperToLower[c] ELSE c

\* str.lower()
Lower(s) == [i \in 1..Len(s) |-> LowerChar(s[i])]

\* a character that the pattern [\W_] does not remove
AlnumChars == Range(UpperChars) \cup Range(LowerChars) \cup DigitChars

IsAlnum(c) == c \in AlnumChars

RECURSIVE StripNonAlnum(_)
StripNonAlnum(s) ==
    IF s = <<>> THEN <<>>
    ELSE IF IsAlnum(Head(s)) THEN <<Head(s)>> \o StripNonAlnum(Tail(s))
    ELSE StripNonAlnum(Tail(s))

\* Python's None: a value that is no string (every character of a string is
\* one-character long)
None == <<"None">>

\* _normalize: "" for None, else lower-case, then remove every run of [\W_]
_normalize(s) == IF s = None THEN <<>> ELSE StripNonAlnum(Lower(s))

\* the `in` operator on strings: t occurs in s as a contiguous substring
IsSubstr(t, s) ==
    \E k \in 0..(Len(s) - Len(t)) : \A i \in 1..Len(t) : s[k + i] = t[i]

\* str.split(): maximal runs of non-whitespace characters, in order
RECURSIVE SplitFrom(_, _, _)
SplitFrom(s, i, cur) ==
    IF i > Len(s) THEN (IF cur = <<>> THEN <<>> ELSE <<cur>>)
    ELSE IF s[i] \in WhiteChars
         THEN (IF cur = <<>> THEN <<>> ELSE <<cur>>) \o SplitFrom(s, i + 1, <<>>)
         ELSE SplitFrom(s, i + 1, Append(cur, s[i]))

Split(s) == SplitFrom(s, 1, <<>>)

-----------------------------------------------------------------------------
(* Exact rationals for float scores *)

Rat(n, d) == [n |-> n, d |-> d]

RatLess(x, y) == x.n * y.d < y.n * x.d

RatEq(x, y) == x.n * y.d = y.n * x.d

RatAdd(x, y) == Rat(x.n * y.d + y.n * x.d, x.d * y.d)

\* min(1.0, x)
Min1(x) == IF x.n > x.d THEN Rat(1, 1) ELSE x

\* round(float(score), 3), in thousandths.  A decimal tie that is an exact
\* binary fraction goes to the even neighbour; the ratios 2*M/T reach such a
\* tie only for T >= 32.
Round3(x) ==
    LET q == (x.n * 1000) \div x.d
        r == (x.n * 1000) % x.d
    IN  IF 2 * r > x.d THEN q + 1
        ELSE IF 2 * r < x.d THEN q
        ELSE IF q % 2 = 0 THEN q ELSE q + 1

\* round(sum(scores) / len(scores), 3), in thousandths.  At a decimal tie the
\* result depends on the binary representation error of the float sum, which
\* falls on either side: both neighbours are possible outcomes.
RoundMean(total, count) ==
    LET q == total \div count
        r == total % count
    IN  IF 2 * r > count THEN {q + 1}
        ELSE IF 2 * r < count THEN {q}
        ELSE {q, q + 1}

-----------------------------------------------------------------------------
(* difflib.SequenceMatcher(None, a, b).ratio() *)

\* length of the common run of a from i and b from j, within a[..ahi], b[..bhi]
RECURSIVE CommonLen(_, _, _, _, _, _)
CommonLen(a, b, i, j, ahi, bhi) ==
    IF i > ahi \/ j > bhi THEN 0
    ELSE IF a[i] # b[j] THEN 0
    ELSE 1 + CommonLen(a, b, i + 1, j + 1, ahi, bhi)

\* find_longest_match: the longest block, earliest in a, then earliest in b
FindLongestMatch(a, b, alo, ahi, blo, bhi) ==
    LET Blocks == {<<i, j, CommonLen(a, b, i, j, ahi, bhi)>> :
                      i \in alo..ahi, j \in blo..bhi}
        Better(x, y) == \/ x[3] > y[3]
                        \/ x[3] = y[3] /\ x[1] < y[1]
                        \/ x[3] = y[3] /\ x[1] = y[1] /\ x[2] <= y[2]
    IN  IF Blocks = {} THEN <<alo, blo, 0>>
        ELSE CHOOSE x \in Blocks : \A y \in Blocks : Better(x, y)

\* total size of get_matching_blocks() over a[alo..ahi], b[blo..bhi]
RECURSIVE MatchingSize(_, _, _, _, _, _)
MatchingSize(a, b, alo, ahi, blo, bhi) ==
    IF alo > ahi \/ blo > bhi THEN 0
    ELSE LET m == FindLongestMatch(a, b, alo, ahi, blo, bhi)
         IN  IF m[3] = 0 THEN 0
             ELSE m[3]
                  + MatchingSize(a, b, alo, m[1] - 1, blo, m[2] - 1)
                  + MatchingSize(a, b, m[1] + m[3], ahi, m[2] + m[3], bhi)

\* _similarity: 2*M/T, and 1.0 when both strings are empty
_similarity(a, b) ==
    IF Len(a) + Len(b) = 0 THEN Rat(1, 1)
    ELSE Rat(2 * MatchingSize(a, b, 1, Len(a), 1, Len(b)), Len(a) + Len(b))

-----------------------------------------------------------------------------
(* _keyword_score *)

\* the trigger table kws, bonuses in hundredths
kws == <<
    [kw |-> <<"e","m","a","i","l">>,                          bonus |-> 25],
    [kw |-> <<"p","h","o","n","e">>,                          bonus |-> 25],
    [kw |-> <<"m","o","b","i","l","e">>,                      bonus |-> 25],
    [kw |-> <<"c","o","n","t","a","c","t">>,                  bonus |-> 20],
    [kw |-> <<"s","k","i","l","l">>,                          bonus |-> 20],
    [kw |-> <<"s","k","i","l","l","s","e","t">>,              bonus |-> 20],
    [kw |-> <<"y","e","a","r">>,                              bonus |-> 20],
    [kw |-> <<"y","r","s">>,                                  bonus |-> 18],
    [kw |-> <<"e","x","p","e","r","i","e","n","c","e">>,      bonus |-> 20],
    [kw |-> <<"s","a","l","a","r","y">>,                      bonus |-> 20],
    [kw |-> <<"p","a","y">>,                                  bonus |-> 15],
    [kw |-> <<"a","m","o","u","n","t">>,                      bonus |-> 12] >>

\* one pass of the loop body for table entry e: two `if`s, each adds the bonus
KwStep(e, internal_l, remote_l) ==
    LET in_internal == IsSubstr(e.kw, internal_l)
        in_remote == IsSubstr(e.kw, remote_l)
    IN  (IF in_internal /\ in_remote THEN e.bonus ELSE 0)
        + (IF in_remote /\ in_internal THEN e.bonus ELSE 0)

RECURSIVE KwLoop(_, _, _)
KwLoop(k, internal_l, remote_l) ==
    IF k > Len(kws) THEN 0
    ELSE KwStep(kws[k], internal_l, remote_l) + KwLoop(k + 1, internal_l, remote_l)

\* _keyword_score(internal, remote), in hundredths
_keyword_score(internal, remote) == KwLoop(1, Lower(internal), Lower(remote))

-----------------------------------------------------------------------------
(* _find_best_candidate *)

Ret(field, score, method) == [field |-> field, score |-> score, method |-> method]

\* keys of a dict built from a list, in insertion (first occurrence) order
RECURSIVE DictKeys(_)
DictKeys(s) ==
    IF s = <<>> THEN <<>>
    ELSE LET init == DictKeys(SubSeq(s, 1, Len(s) - 1))
             last == s[Len(s)]
         IN  IF last \in Range(init) THEN init ELSE Append(init, last)

\* the condition of line 99
IsExact(internal, rf) == Lower(rf) = Lower(internal)

\* the condition of line 105
IsNormalized(internal, rf) ==
    _normalize(rf) = _normalize(internal) /\ _normalize(rf) # <<>>

\* the condition of line 111
HasToken(internal, rf) ==
    LET toks == Split(Lower(internal))
    IN  \E t \in 1..Len(toks) : IsSubstr(toks[t], Lower(rf))

\* sim + bonus of lines 113-114 and 123-125
SimPlusBonus(internal, rf) ==
    RatAdd(_similarity(_normalize(internal), _normalize(rf)),
           Rat(_keyword_score(internal, rf), 100))

\* the score appended at line 115
KeywordEntryScore(internal, rf) == Min1(SimPlusBonus(internal, rf))

\* keyword_matches of lines 109-115
RECURSIVE KeywordMatches(_, _)
KeywordMatches(internal, rfs) ==
    IF rfs = <<>> THEN <<>>
    ELSE (IF HasToken(internal, Head(rfs))
          THEN <<Ret(Head(rfs), KeywordEntryScore(internal, Head(rfs)), "keyword")>>
          ELSE <<>>)
         \o KeywordMatches(internal, Tail(rfs))

\* first element after an ascending sort (reverse=True left out)
SortedFirst_Ascending(ms) ==
    ms[CHOOSE j \in 1..Len(ms) :
          \A m \in 1..Len(ms) : \/ RatLess(ms[j].score, ms[m].score)
                                \/ RatEq(ms[m].score, ms[j].score) /\ j <= m]

\* first element after the stable descending sort of line 117
SortedFirst(ms) ==
    ms[CHOOSE j \in 1..Len(ms) :
          \A m \in 1..Len(ms) : \/ RatLess(ms[m].score, ms[j].score)
                                \/ RatEq(ms[m].score, ms[j].score) /\ j <= m]

\* the loop comparing with 0 instead of the best score so far
RECURSIVE FuzzyLoop_AnyPositive(_, _, _)
FuzzyLoop_AnyPositive(internal, rfs, best) ==
    IF rfs = <<>> THEN best
    ELSE LET sim == SimPlusBonus(internal, Head(rfs))
         IN  FuzzyLoop_AnyPositive(internal, Tail(rfs),
                       IF RatLess(Rat(0, 1), sim)
                       THEN Ret(Head(rfs), sim, "fuzzy") ELSE best)

\* the loop of lines 121-127
RECURSIVE FuzzyLoop(_, _, _)
FuzzyLoop(internal, rfs, best) ==
    IF rfs = <<>> THEN best
    ELSE LET sim == SimPlusBonus(internal, Head(rfs))
         IN  FuzzyLoop(internal, Tail(rfs),
                       IF RatLess(best.score, sim)
                       THEN Ret(Head(rfs), sim, "fuzzy") ELSE best)

NoMatch == Ret(<<>>, Rat(0, 1), "")

ExactStage(internal, rfs) ==
    LET hits == {j \in 1..Len(rfs) : IsExact(internal, rfs[j])}
    IN  IF hits = {} THEN NoMatch
        ELSE Ret(rfs[CHOOSE j \in hits : \A m \in hits : j <= m], Rat(1, 1), "exact")

NormalizedStage(internal, rfs) ==
    LET keys == DictKeys(rfs)
        hits == {j \in 1..Len(keys) : IsNormalized(internal, keys[j])}
    IN  IF hits = {} THEN NoMatch
        ELSE Ret(keys[CHOOSE j \in hits : \A m \in hits : j <= m], Rat(98, 100),
                 "normalized")

KeywordStage(internal, rfs) ==
    LET ms == KeywordMatches(internal, rfs)
    IN  IF ms = <<>> THEN NoMatch ELSE SortedFirst(ms)

FuzzyStage(internal, rfs) ==
    LET best == FuzzyLoop(internal, rfs, Ret(<<>>, Rat(0, 1), ""))
    IN  IF RatLess(Rat(0, 1), best.score) THEN best ELSE NoMatch

\* the normalized stage tried before the exact stage
_find_best_candidate_NormalizedFirst(internal, rfs) ==
    LET exact == ExactStage(internal, rfs)
        normalized == NormalizedStage(internal, rfs)
        keyword == KeywordStage(internal, rfs)
    IN  IF normalized.method # "" THEN normalized
        ELSE IF exact.method # "" THEN exact
        ELSE IF keyword.method # "" THEN keyword
        ELSE FuzzyStage(internal, rfs)

_find_best_candidate(internal, rfs) ==
    LET exact == ExactStage(internal, rfs)
        normalized == NormalizedStage(internal, rfs)
        keyword == KeywordStage(internal, rfs)
    IN  IF exact.method # "" THEN exact
        ELSE IF normalized.method # "" THEN normalized
        ELSE IF keyword.method # "" THEN keyword
        ELSE FuzzyStage(internal, rfs)

\* _find_best_candidate raises AttributeError: the loop of lines 98-100
\* reaches, before any exact match, a remote field that is None or, with
\* internal None, any remote field (None has no .lower())
Raises(internal, rfs) ==
    \E j \in 1..Len(rfs) :
        /\ rfs[j] = None \/ internal = None
        /\ \A m \in 1..(j - 1) : ~IsExact(internal, rfs[m])

-----------------------------------------------------------------------------
(* Inputs *)

\* internal key names the runs draw from
KeyPool == { <<"P","a","y">>,
             <<"p","a","y","s">>,
             <<"p","a","y"," ","a">>,
             <<"-">>,
             <<>> }

\* remote field names the runs draw from
RemotePool == { <<"p","a","y">>,
                <<"P","A","Y">>,
                <<"p","a","y","_">>,
                <<"_","_">>,
                <<"-"," ","b","a">>,
                <<>> }

SeqsUpTo(S, n) == UNION {[1..k -> S] : k \in 0..n}

AcceptThresholds == {650, 980}

AutoApplyThresholds == {850}

\* auto_apply_threshold of a second call on the same inputs
OtherAutoApplyThresholds == {1000}

\* names with a missing (None) or empty entry
MalformedKeyPool == { None, <<>>, <<"P","a","y">> }

MalformedRemotePool == { None, <<>>, <<"p","a","y">> }

-----------------------------------------------------------------------------
(* auto_generate_mapping *)

Entry(ik, field, score, method) ==
    [ik |-> ik, field |-> field, score |-> score, method |-> method]

\* candidates[ik] = ... on a dict kept as a sequence in insertion order
DictSet(d, e) ==
    IF \E j \in 1..Len(d) : d[j].ik = e.ik
    THEN [j \in 1..Len(d) |-> IF d[j].ik = e.ik THEN e ELSE d[j]]
    ELSE Append(d, e)

\* candidates[ik]
DictGet(d, ik) == d[CHOOSE j \in 1..Len(d) : d[j].ik = ik]

\* the entry built at line 155 from the returned (field, score, method)
CandidateEntry(ik, r) == Entry(ik, r.field, Round3(r.score), r.method)

\* field_to_iks[fld]: positions in candidates claiming fld, lines 159-164
Claimants(cands, fld) ==
    {j \in 1..Len(cands) : cands[j].field # <<>> /\ cands[j].field = fld}

\* keep_ik: first of the claimants after the stable descending sort, lines 171-173
KeepIdx(cands, fld) ==
    CHOOSE j \in Claimants(cands, fld) :
        \A m \in Claimants(cands, fld) :
            \/ cands[m].score < cands[j].score
            \/ cands[m].score = cands[j].score /\ j <= m

\* collision handling that unsets nobody
ResolveCollisions_KeepAll(cands) == cands

\* collision handling that clears the loser's field and method but not its score
ResolveCollisions_KeepScore(cands) ==
    [j \in 1..Len(cands) |->
        IF /\ cands[j].field # <<>>
           /\ Cardinality(Claimants(cands, cands[j].field)) > 1
           /\ KeepIdx(cands, cands[j].field) # j
        THEN Entry(cands[j].ik, <<>>, cands[j].score, "conflict")
        ELSE cands[j]]

\* collision handling that clears the loser's field and score but not its method
ResolveCollisions_KeepMethod(cands) ==
    [j \in 1..Len(cands) |->
        IF /\ cands[j].field # <<>>
           /\ Cardinality(Claimants(cands, cands[j].field)) > 1
           /\ KeepIdx(cands, cands[j].field) # j
        THEN Entry(cands[j].ik, <<>>, 0, cands[j].method)
        ELSE cands[j]]

\* candidates after the loop of lines 167-177
ResolveCollisions(cands) ==
    [j \in 1..Len(cands) |->
        IF /\ cands[j].field # <<>>
           /\ Cardinality(Claimants(cands, cands[j].field)) > 1
           /\ KeepIdx(cands, cands[j].field) # j
        THEN Entry(cands[j].ik, <<>>, 0, "conflict")
        ELSE cands[j]]

\* acceptance that compares with auto_apply_threshold
Accepted_AutoApply(info, threshold) ==
    info.field # <<>> /\ info.score >= auto_apply_threshold

\* acceptance that leaves out a score equal to the threshold
Accepted_Strict(info, threshold) == info.field # <<>> /\ info.score > threshold

\* the condition of lines 184 and 190
Accepted(info, threshold) == info.field # <<>> /\ info.score >= threshold

\* final_mapping of lines 180-185, a dict in insertion order
RECURSIVE FinalMapping(_, _)
FinalMapping(cands, threshold) ==
    IF cands = <<>> THEN <<>>
    ELSE (IF Accepted(Head(cands), threshold)
          THEN <<[ik |-> Head(cands).ik, field |-> Head(cands).field]>>
          ELSE <<>>)
         \o FinalMapping(Tail(cands), threshold)

RECURSIVE SumScores(_)
SumScores(cands) ==
    IF cands = <<>> THEN 0 ELSE Head(cands).score + SumScores(Tail(cands))

\* minimum over the keys that kept a candidate only
MinScore_MatchedOnly(cands) ==
    LET S == {cands[j].score : j \in {m \in 1..Len(cands) : cands[m].field # <<>>}}
    IN  IF S = {} THEN 0 ELSE CHOOSE x \in S : \A y \in S : x <= y

\* min(scores) if scores else 0.0, line 188
MinScore(cands) ==
    IF cands = <<>> THEN 0
    ELSE CHOOSE x \in {cands[j].score : j \in 1..Len(cands)} :
             \A j \in 1..Len(cands) : x <= cands[j].score

\* the values avg_score can take at line 189
AvgScores(cands) ==
    IF cands = <<>> THEN {0} ELSE RoundMean(SumScores(cands), Len(cands))

\* all_mapped that asks for one accepted key only
AllMapped_Any(cands, iks, threshold) ==
    \E j \in 1..Len(iks) : Accepted(DictGet(cands, iks[j]), threshold)

\* all_mapped of line 190
AllMapped(cands, iks, threshold) ==
    \A j \in 1..Len(iks) : Accepted(DictGet(cands, iks[j]), threshold)

\* summary of lines 187-191
Summary(cands, iks, threshold, avg) ==
    [min_score  |-> MinScore(cands),
     avg_score  |-> avg,
     all_mapped |-> AllMapped(cands, iks, threshold)]

-----------------------------------------------------------------------------
(* src/airtable_client.py: record_exists and upsert_record *)

\* answers of the Airtable API to the GET of record_exists: a matching record,
\* no record, an auth failure, another HTTP error, no answer at all
GetAnswers == {"found", "empty", "401", "403", "500", "neterr"}

\* answers to the POST of upsert_record
PostAnswers == {"200", "401", "403", "422", "500", "neterr"}

\* one request sent to the API, with its answer
Request(method, key, answer) == [method |-> method, key |-> key, answer |-> answer]

\* record_exists that answers True exactly when no record was found
record_exists_Inverted(cfg, answer) == cfg /\ answer # "found"

\* record_exists, lines 101-124: False when not configured and on every
\* failure, else bool(records)
record_exists(cfg, answer) == cfg /\ answer = "found"

\* str(key_value).replace(' ', '_')
RECURSIVE ReplaceSpaces(_)
ReplaceSpaces(s) ==
    IF s = <<>> THEN <<>>
    ELSE <<IF Head(s) = " " THEN "_" ELSE Head(s)>> \o ReplaceSpaces(Tail(s))

\* what a call of upsert_record gives back: a record or an exception
Returns(id, fields) == [kind |-> "returned", id |-> id, fields |-> fields]

Raised == [kind |-> "raised", id |-> <<>>, fields |-> <<>>]

NoRecord == [kind |-> "none", id |-> <<>>, fields |-> <<>>]

\* the mock record of lines 150-153 and 174-177
MockRecord(key, fields) ==
    Returns(<<"m","o","c","k","-">> \o ReplaceSpaces(key), fields)

\* the record of lines 161-164
ExistsRecord(key, fields) ==
    Returns(<<"e","x","i","s","t","s","-">> \o ReplaceSpaces(key), fields)

\* the id Airtable gives a created record
CreatedId == <<"r","e","c">>

\* a create that answers every HTTP error with a mock record
PostOutcome_MockOnError(key, fields, answer) ==
    IF answer = "neterr" THEN Raised
    ELSE IF answer = "200" THEN Returns(CreatedId, fields)
    ELSE MockRecord(key, fields)

\* upsert_record after the POST, lines 166-187
PostOutcome(key, fields, answer) ==
    IF answer = "neterr" THEN Raised
    ELSE IF answer \in {"401", "403"} THEN MockRecord(key, fields)
    ELSE IF answer = "200" THEN Returns(CreatedId, fields)
    ELSE Raised

-----------------------------------------------------------------------------
(* Inputs of the import run *)

\* dedupe keys (an e-mail address or a name) the files yield
DedupeKeyPool == { <<"a"," ","b">>, <<"x","@","y">> }

\* the fields extracted from the file at position n
Payload(n) == <<"fields", n>>

-----------------------------------------------------------------------------
(* The run of auto_generate_mapping as a state machine *)

\* no import run is going on
NoImport ==
    /\ configured = FALSE
    /\ dry_run = FALSE
    /\ dedupe_keys = <<>>
    /\ file = 0
    /\ ipc = "idle"
    /\ exists = FALSE
    /\ called = FALSE
    /\ http = <<>>
    /\ rec = NoRecord
    /\ details = <<>>

\* the locals of auto_generate_mapping at entry
Entered ==
    /\ pc = "build"
    /\ pos = 0
    /\ ret = NoMatch
    /\ candidates = <<>>
    /\ raw = <<>>
    /\ final_mapping = <<>>
    /\ summary = [min_score |-> 0, avg_score |-> 0, all_mapped |-> FALSE]

Init ==
    /\ internal_keys \in SeqsUpTo(KeyPool, MaxKeys)
    /\ remote_fields \in SeqsUpTo(RemotePool, MaxRemote)
    /\ auto_apply_threshold \in AutoApplyThresholds
    /\ accept_threshold \in AcceptThresholds
    /\ Entered
    /\ first_result = <<>>
    /\ NoImport

\* one iteration of the loop of lines 153-155
BuildCandidate ==
    /\ pc = "build"
    /\ pos < Len(internal_keys)
    /\ ~Raises(internal_keys[pos + 1], remote_fields)
    /\ pos' = pos + 1
    /\ ret' = _find_best_candidate(internal_keys[pos + 1], remote_fields)
    /\ candidates' = DictSet(candidates, CandidateEntry(internal_keys[pos + 1], ret'))
    /\ UNCHANGED <<internal_keys, remote_fields, auto_apply_threshold,
                   accept_threshold, pc, raw, final_mapping, summary,
                   first_result, import_vars>>

\* an iteration of the loop of lines 153-155 in which _find_best_candidate
\* raises: the exception leaves auto_generate_mapping
BuildRaises ==
    /\ pc = "build"
    /\ pos < Len(internal_keys)
    /\ Raises(internal_keys[pos + 1], remote_fields)
    /\ pos' = pos + 1
    /\ pc' = "raised"
    /\ UNCHANGED <<internal_keys, remote_fields, auto_apply_threshold,
                   accept_threshold, ret, candidates, raw, final_mapping,
                   summary, first_result, import_vars>>

\* lines 159-177
Resolve ==
    /\ pc = "build"
    /\ pos = Len(internal_keys)
    /\ raw' = candidates
    /\ candidates' = ResolveCollisions(candidates)
    /\ pc' = "accept"
    /\ UNCHANGED <<internal_keys, remote_fields, auto_apply_threshold,
                   accept_threshold, pos, ret, final_mapping, summary,
                   first_result, import_vars>>

\* the scores of the suggestions, in order
Scores(cands) == [j \in 1..Len(cands) |-> cands[j].score]

\* round() is a function: the same scores give the avg_score of the first call
AvgAsBefore(avg) ==
    IF first_result # <<>> /\ Scores(first_result[1].suggestions) = Scores(candidates)
    THEN avg = first_result[1].summary.avg_score
    ELSE TRUE

\* lines 180-193
Accept ==
    /\ pc = "accept"
    /\ final_mapping' = FinalMapping(candidates, accept_threshold)
    /\ \E avg \in AvgScores(candidates) :
          /\ AvgAsBefore(avg)
          /\ summary' = Summary(candidates, internal_keys, accept_threshold, avg)
    /\ pc' = "done"
    /\ UNCHANGED <<internal_keys, remote_fields, auto_apply_threshold,
                   accept_threshold, pos, ret, candidates, raw, first_result,
                   import_vars>>

Next == BuildCandidate \/ Resolve \/ Accept

Spec == Init /\ [][Next]_vars

-----------------------------------------------------------------------------
(* auto_generate_mapping on names that may be missing *)

InitMalformed ==
    /\ internal_keys \in SeqsUpTo(MalformedKeyPool, MaxKeys)
    /\ remote_fields \in SeqsUpTo(MalformedRemotePool, MaxRemote)
    /\ auto_apply_threshold \in AutoApplyThresholds
    /\ accept_threshold \in AcceptThresholds
    /\ Entered
    /\ first_result = <<>>
    /\ NoImport

NextMalformed == BuildCandidate \/ BuildRaises \/ Resolve \/ Accept

SpecMalformed == InitMalformed /\ [][NextMalformed]_vars

-----------------------------------------------------------------------------
(* Two calls of auto_generate_mapping that differ in auto_apply_threshold *)

\* the value returned at line 193
Result == [suggestions |-> candidates, final_mapping |-> final_mapping,
           summary |-> summary]

\* the first call has returned; the same inputs are passed again with another
\* auto_apply_threshold
CallAgain ==
    /\ pc = "done"
    /\ first_result = <<>>
    /\ first_result' = <<Result>>
    /\ auto_apply_threshold' \in OtherAutoApplyThresholds \ {auto_apply_threshold}
    /\ pc' = "build"
    /\ pos' = 0
    /\ ret' = NoMatch
    /\ candidates' = <<>>
    /\ raw' = <<>>
    /\ final_mapping' = <<>>
    /\ summary' = [min_score |-> 0, avg_score |-> 0, all_mapped |-> FALSE]
    /\ UNCHANGED <<internal_keys, remote_fields, accept_threshold, import_vars>>

NextTwice == BuildCandidate \/ Resolve \/ Accept \/ CallAgain

SpecTwice == Init /\ [][NextTwice]_vars

-----------------------------------------------------------------------------
(* The loop of main() in import_resumes.py, lines 162-204 *)

\* auto_generate_mapping is not running
NoMapping ==
    /\ internal_keys = <<>>
    /\ remote_fields = <<>>
    /\ auto_apply_threshold = 0
    /\ accept_threshold = 0
    /\ pc = "idle"
    /\ pos = 0
    /\ ret = NoMatch
    /\ candidates = <<>>
    /\ raw = <<>>
    /\ final_mapping = <<>>
    /\ summary = [min_score |-> 0, avg_score |-> 0, all_mapped |-> FALSE]
    /\ first_result = <<>>

InitImport ==
    /\ configured \in BOOLEAN
    /\ dry_run \in BOOLEAN
    /\ dedupe_keys \in SeqsUpTo(DedupeKeyPool, MaxFiles)
    /\ file = 0
    /\ ipc = "next"
    /\ exists = FALSE
    /\ called = FALSE
    /\ http = <<>>
    /\ rec = NoRecord
    /\ details = <<>>
    /\ NoMapping

\* lines 163-172 raise (unreadable file, failed extraction): lines 201-204
ExtractFails ==
    /\ ipc = "next"
    /\ file < Len(dedupe_keys)
    /\ file' = file + 1
    /\ http' = <<>>
    /\ called' = FALSE
    /\ exists' = FALSE
    /\ rec' = NoRecord
    /\ details' = Append(details, "error")
    /\ UNCHANGED <<configured, dry_run, dedupe_keys, ipc, mapping_vars>>

\* lines 163-182: the next file is read and main() asks record_exists for its
\* dedupe key; a GET is sent only when Airtable is configured
MainRecordExists ==
    /\ ipc = "next"
    /\ file < Len(dedupe_keys)
    /\ file' = file + 1
    /\ called' = FALSE
    /\ rec' = NoRecord
    /\ \E answer \in (IF configured THEN GetAnswers ELSE {"none"}) :
          /\ http' = IF configured
                     THEN <<Request("GET", dedupe_keys[file + 1], answer)>>
                     ELSE <<>>
          /\ exists' = record_exists(configured, answer)
    /\ ipc' = "decide"
    /\ UNCHANGED <<configured, dry_run, dedupe_keys, details, mapping_vars>>

\* lines 184-188
SkipExists ==
    /\ ipc = "decide"
    /\ exists
    /\ details' = Append(details, "skipped_exists")
    /\ ipc' = "next"
    /\ UNCHANGED <<configured, dry_run, dedupe_keys, file, exists, called,
                   http, rec, mapping_vars>>

\* lines 190-193
DryRun ==
    /\ ipc = "decide"
    /\ ~exists
    /\ dry_run
    /\ details' = Append(details, "dry_run")
    /\ ipc' = "next"
    /\ UNCHANGED <<configured, dry_run, dedupe_keys, file, exists, called,
                   http, rec, mapping_vars>>

\* line 195 calls upsert_record, which is not configured: lines 150-153
UpsertNotConfigured ==
    /\ ipc = "decide"
    /\ ~exists
    /\ ~dry_run
    /\ ~configured
    /\ called' = TRUE
    /\ rec' = MockRecord(dedupe_keys[file], Payload(file))
    /\ ipc' = "record"
    /\ UNCHANGED <<configured, dry_run, dedupe_keys, file, exists, http,
                   details, mapping_vars>>

\* line 195 calls upsert_record, which asks record_exists itself and returns
\* the "exists-" record when it says yes: lines 155-164
UpsertRecordExists ==
    /\ ipc = "decide"
    /\ ~exists
    /\ ~dry_run
    /\ configured
    /\ called' = TRUE
    /\ \E answer \in GetAnswers :
          /\ http' = Append(http, Request("GET", dedupe_keys[file], answer))
          /\ IF record_exists(configured, answer)
             THEN /\ rec' = ExistsRecord(dedupe_keys[file], Payload(file))
                  /\ ipc' = "record"
             ELSE /\ rec' = rec
                  /\ ipc' = "post"
    /\ UNCHANGED <<configured, dry_run, dedupe_keys, file, exists, details,
                   mapping_vars>>

\* upsert_record sends the create and returns or raises: lines 166-187
UpsertPost ==
    /\ ipc = "post"
    /\ \E answer \in PostAnswers :
          /\ http' = Append(http, Request("POST", dedupe_keys[file], answer))
          /\ rec' = PostOutcome(dedupe_keys[file], Payload(file), answer)
    /\ ipc' = "record"
    /\ UNCHANGED <<configured, dry_run, dedupe_keys, file, exists, called,
                   details, mapping_vars>>

\* upsert_record returned: lines 196-199
RecordInserted ==
    /\ ipc = "record"
    /\ rec.kind = "returned"
    /\ details' = Append(details, "inserted")
    /\ ipc' = "next"
    /\ UNCHANGED <<configured, dry_run, dedupe_keys, file, exists, called,
                   http, rec, mapping_vars>>

\* upsert_record raised: lines 201-204
RecordError ==
    /\ ipc = "record"
    /\ rec.kind = "raised"
    /\ details' = Append(details, "error")
    /\ ipc' = "next"
    /\ UNCHANGED <<configured, dry_run, dedupe_keys, file, exists, called,
                   http, rec, mapping_vars>>

NextImport ==
    \/ ExtractFails
    \/ MainRecordExists
    \/ SkipExists
    \/ DryRun
    \/ UpsertNotConfigured
    \/ UpsertRecordExists
    \/ UpsertPost
    \/ RecordInserted
    \/ RecordError

SpecImport == InitImport /\ [][NextImport]_vars

-----------------------------------------------------------------------------
(* Vocabulary of the properties *)

Idx(s) == 1..Len(s)

First(S) == CHOOSE j \in S : \A m \in S : j <= m

\* the key the build loop has just handled
Handled == IF pc = "build" /\ pos >= 1 THEN {internal_keys[pos]} ELSE {}

\* what _find_best_candidate returned for the key just handled
Returned(k) == ret

\* positions of remote fields equal to k case-insensitively
ExactHits(k) == {j \in Idx(remote_fields) : Lower(remote_fields[j]) = Lower(k)}

\* positions of remote fields with the same, non-empty, normalized form as k
NormHits(k) ==
    {j \in Idx(remote_fields) :
        /\ _normalize(remote_fields[j]) = _normalize(k)
        /\ _normalize(k) # <<>>}

\* s[a..b] is a whitespace-delimited token of s
IsTokenAt(s, a, b) ==
    /\ a <= b
    /\ \A c \in a..b : s[c] \notin WhiteChars
    /\ (a = 1 \/ s[a - 1] \in WhiteChars)
    /\ (b = Len(s) \/ s[b + 1] \in WhiteChars)

\* the whitespace-delimited tokens of s
Tokens(s) == {SubSeq(s, a, b) : <<a, b>> \in {p \in Idx(s) \X Idx(s) : IsTokenAt(s, p[1], p[2])}}

\* positions of remote fields that contain a token of k
TokenHits(k) ==
    LET toks == Tokens(Lower(k))
    IN  {j \in Idx(remote_fields) :
            \E t \in toks : IsSubstr(t, Lower(remote_fields[j]))}

\* similarity + keyword bonus of k and the remote field at position j
Combined(k, j) == SimPlusBonus(k, remote_fields[j])

Capped(k, j) ==
    LET c == Combined(k, j) IN IF RatLess(Rat(1, 1), c) THEN Rat(1, 1) ELSE c

Returning == pc = "done"

\* the suggestion of key k while the build loop runs
Suggested(k) == DictGet(candidates, k)

\* sum of the table weights of the triggers present in both names, each once
RECURSIVE TableSumFrom(_, _, _)
TableSumFrom(k, internal, remote) ==
    IF k > Len(kws) THEN 0
    ELSE (IF IsSubstr(kws[k].kw, Lower(internal)) /\ IsSubstr(kws[k].kw, Lower(remote))
          THEN kws[k].bonus ELSE 0)
         + TableSumFrom(k + 1, internal, remote)

\* positions in raw whose candidate is the remote field f
RawClaimants(f) == {j \in Idx(raw) : raw[j].method # "" /\ raw[j].field = f}

Conflict(ik) == Entry(ik, <<>>, 0, "conflict")

-----------------------------------------------------------------------------
(* Properties *)

\* C1: in the returned result final_mapping is injective: no remote field is
\* the value of two different internal keys.
C1_FinalMappingInjective ==
    Returning =>
        \A a, b \in Idx(final_mapping) :
            a # b => final_mapping[a].field # final_mapping[b].field

\* two keys whose raw candidates are the same field and both pass the threshold
C1_Witness ==
    /\ Returning
    /\ final_mapping # <<>>
    /\ \E a, b \in Idx(raw) :
          /\ a # b
          /\ raw[a].field = raw[b].field
          /\ Accepted(raw[a], accept_threshold)
          /\ Accepted(raw[b], accept_threshold)

\* C2: every returned suggestion has a score within [0, 1].
C2_ScoreInUnitInterval ==
    Returning =>
        \A j \in Idx(candidates) :
            candidates[j].score >= 0 /\ candidates[j].score <= 1000

\* C3 as stated: in every returned suggestion method = "", field = "" and
\* score = 0.0 are equivalent.
C3_EmptyMarksEquivalent ==
    Returning =>
        \A j \in Idx(candidates) :
            /\ (candidates[j].method = "") <=> (candidates[j].field = <<>>)
            /\ (candidates[j].field = <<>>) <=> (candidates[j].score = 0)

\* C3 amended: a returned suggestion whose method is "" or "conflict" has
\* field "" and score 0.0.
C3_UnmatchedIsEmptyAndZero ==
    Returning =>
        \A j \in Idx(candidates) :
            candidates[j].method \in {"", "conflict"} =>
                candidates[j].field = <<>> /\ candidates[j].score = 0

\* a result with a collision loser whose raw candidate had a field and a
\* positive score
C3_Witness ==
    /\ Returning
    /\ \E j \in Idx(candidates) :
          /\ candidates[j].method = "conflict"
          /\ raw[j].field # <<>>
          /\ raw[j].score > 0

\* C4 as stated: in every returned suggestion method = "exact" exactly when
\* score = 1.0.
C4_ExactIffOne ==
    Returning =>
        \A j \in Idx(candidates) :
            (candidates[j].method = "exact") <=> (candidates[j].score = 1000)

\* C4 amended: a returned suggestion whose method is "exact" has score 1.0.
C4_ExactHasScoreOne ==
    Returning =>
        \A j \in Idx(candidates) :
            candidates[j].method = "exact" => candidates[j].score = 1000

\* a result with an exact match that won a collision
C4_Witness ==
    /\ Returning
    /\ \E j, m \in Idx(candidates) :
          /\ j # m
          /\ candidates[j].method = "exact"
          /\ raw[m].field = raw[j].field
          /\ candidates[m].method = "conflict"

\* C5: _keyword_score is the sum of the table weights of the triggers present
\* in both lower-cased names, each trigger counted once.
C5_KeywordScoreCountsOnce ==
    \A k \in Handled : \A j \in Idx(remote_fields) :
        _keyword_score(k, remote_fields[j]) = TableSumFrom(1, k, remote_fields[j])

\* C6: when some remote field equals the key case-insensitively, the first
\* such field is returned with score 1.0 and method "exact".
C6_ExactFirst ==
    \A k \in Handled :
        LET got == Returned(k)
        IN  ExactHits(k) # {} =>
                /\ got.field = remote_fields[First(ExactHits(k))]
                /\ RatEq(got.score, Rat(1, 1))
                /\ got.method = "exact"

\* an exact match taken although a normalized match stands earlier in the list
C6_Witness ==
    /\ pc = "build"
    /\ \E k \in Handled :
          /\ ExactHits(k) # {}
          /\ NormHits(k) \ ExactHits(k) # {}
          /\ First(NormHits(k) \ ExactHits(k)) < First(ExactHits(k))
          /\ Suggested(k).method = "exact"
          /\ Suggested(k).score = 1000

\* C7: without an exact match the first remote field with the key's non-empty
\* normalized form is returned as (field, 0.98, "normalized"); and a key and a
\* remote field whose normalized forms are both empty, and which are not equal
\* case-insensitively, are never matched to each other.
C7_NormalizedFirstAndNeverEmpty ==
    \A k \in Handled :
        LET got == Returned(k)
        IN  /\ (ExactHits(k) = {} /\ NormHits(k) # {}) =>
                  /\ got.field = remote_fields[First(NormHits(k))]
                  /\ RatEq(got.score, Rat(98, 100))
                  /\ got.method = "normalized"
            /\ (got.method \notin {"", "exact"}) =>
                  ~ (_normalize(k) = <<>> /\ _normalize(got.field) = <<>>)

\* C8: without an exact or normalized match, when some remote field contains
\* a token of the key, the result is a "keyword" match: of the fields that
\* contain a token, the first one with the greatest min(1.0, similarity +
\* bonus), with that score.
C8_KeywordBestFirst ==
    \A k \in Handled :
        LET got == Returned(k)
            hits == TokenHits(k)
        IN  (ExactHits(k) = {} /\ NormHits(k) = {} /\ hits # {}) =>
                /\ got.method = "keyword"
                /\ \E j \in hits :
                      /\ got.field = remote_fields[j]
                      /\ RatEq(got.score, Capped(k, j))
                      /\ \A m \in hits :
                            LET other == Capped(k, m)
                            IN  /\ ~ RatLess(got.score, other)
                                /\ RatEq(got.score, other) => j <= m
                /\ \A j \in Idx(remote_fields) \ hits :
                      remote_fields[j] \in {remote_fields[m] : m \in hits}
                      \/ got.field # remote_fields[j]

\* a keyword match where a field without a token stands first and the best
\* field with a token is not the first one with a token
C8_Witness ==
    /\ pc = "build"
    /\ \E k \in Handled :
          /\ ExactHits(k) = {} /\ NormHits(k) = {}
          /\ Suggested(k).method = "keyword"
          /\ \E j, m \in TokenHits(k) : j < m /\ RatLess(Capped(k, j), Capped(k, m))

\* C9: without an exact, normalized or keyword candidate the result is a
\* "fuzzy" match with a remote field of greatest similarity + bonus when that
\* is greater than 0, and otherwise field "", score 0.0, method "".
C9_FuzzyMaxOrNoMatch ==
    \A k \in Handled :
        LET got == Returned(k)
        IN  (ExactHits(k) = {} /\ NormHits(k) = {} /\ TokenHits(k) = {}) =>
                IF \E j \in Idx(remote_fields) : RatLess(Rat(0, 1), Combined(k, j))
                THEN /\ got.method = "fuzzy"
                     /\ \E j \in Idx(remote_fields) :
                           /\ got.field = remote_fields[j]
                           /\ RatEq(got.score, Combined(k, j))
                     /\ \A m \in Idx(remote_fields) :
                           ~ RatLess(got.score, Combined(k, m))
                ELSE /\ got.field = <<>>
                     /\ RatEq(got.score, Rat(0, 1))
                     /\ got.method = ""

\* a fuzzy match whose field is not the first of the list, after a key that
\* matched nothing
C9_Witness ==
    /\ pc = "build"
    /\ \E k \in Handled :
          /\ Suggested(k).method = "fuzzy"
          /\ \E j, m \in Idx(remote_fields) :
                j < m /\ RatLess(Combined(k, j), Combined(k, m))
    /\ \E j \in Idx(candidates) : candidates[j].method = ""

\* C10: of the keys whose raw candidate is one and the same remote field,
\* exactly one keeps its candidate unchanged and it has the highest score of
\* them, every other one ends as field "", score 0.0, method "conflict"; a
\* key whose raw candidate no other key claims is left unchanged.
C10_OneWinnerPerField ==
    pc \in {"accept", "done"} =>
        \A j \in Idx(raw) :
            LET G == RawClaimants(raw[j].field)
            IN  IF raw[j].method # "" /\ Cardinality(G) >= 2
                THEN \E w \in G :
                        /\ candidates[w] = raw[w]
                        /\ \A m \in G : raw[m].score <= raw[w].score
                        /\ \A m \in G \ {w} : candidates[m] = Conflict(raw[m].ik)
                ELSE candidates[j] = raw[j]

\* positions of final_mapping that hold key k
MappedAt(k) == {a \in Idx(final_mapping) : final_mapping[a].ik = k}

\* C11: a key is in final_mapping exactly when its collision-adjusted
\* candidate has a non-empty field and a score >= accept_threshold (a score
\* equal to the threshold is accepted), and then final_mapping[k] is exactly
\* that candidate's field.
C11_MappedIffAccepted ==
    Returning =>
        /\ \A j \in Idx(candidates) :
              LET c == candidates[j]
              IN  IF c.field # <<>> /\ c.score >= accept_threshold
                  THEN /\ Cardinality(MappedAt(c.ik)) = 1
                       /\ \A a \in MappedAt(c.ik) : final_mapping[a].field = c.field
                  ELSE MappedAt(c.ik) = {}
        /\ \A a \in Idx(final_mapping) :
              \E j \in Idx(candidates) : candidates[j].ik = final_mapping[a].ik

\* a key accepted with a score equal to the threshold, next to a rejected one
C11_Witness ==
    /\ Returning
    /\ \E j \in Idx(candidates) :
          /\ candidates[j].field # <<>>
          /\ candidates[j].score = accept_threshold
          /\ MappedAt(candidates[j].ik) # {}
    /\ \E j \in Idx(candidates) :
          /\ candidates[j].field # <<>>
          /\ candidates[j].score < accept_threshold
          /\ MappedAt(candidates[j].ik) = {}

\* no key occurs twice in internal_keys
DistinctKeys ==
    \A a, b \in Idx(internal_keys) : a # b => internal_keys[a] # internal_keys[b]

\* C12 (as stated): for every input, the empty internal_keys list included,
\* summary.all_mapped is true exactly when final_mapping has as many entries
\* as internal_keys.
C12_AllMappedIffFullSize ==
    Returning => (summary.all_mapped <=> Len(final_mapping) = Len(internal_keys))

\* C12 (amended): for every input whose internal keys are pairwise distinct,
\* the empty list included, summary.all_mapped is true exactly when
\* final_mapping has as many entries as internal_keys.
C12_AllMappedIffFullSizeDistinct ==
    (Returning /\ DistinctKeys) =>
        (summary.all_mapped <=> Len(final_mapping) = Len(internal_keys))

\* two distinct keys, both mapped
C12_Witness ==
    /\ Returning
    /\ DistinctKeys
    /\ Len(internal_keys) = 2
    /\ summary.all_mapped
    /\ Len(final_mapping) = 2

\* sum of the scores of the first n entries of candidates
RECURSIVE TotalUpTo(_)
TotalUpTo(n) == IF n = 0 THEN 0 ELSE candidates[n].score + TotalUpTo(n - 1)

\* q (thousandths) is the mean total / n rounded to three decimals
IsRoundedMean(q, total, n) ==
    LET diff == n * q - total
    IN  2 * diff <= n /\ -2 * diff <= n

\* C13: min_score and avg_score are the minimum and the mean rounded to three
\* decimals of the collision-adjusted scores of all internal keys, the
\* conflict, no-match and below-threshold keys included; so min_score is 0.0
\* whenever a key is a conflict loser or has no match, and both are 0.0 for
\* an empty internal_keys.
C13_MinAndMeanOverAllKeys ==
    Returning =>
        /\ \A a \in Idx(internal_keys) :
              \E j \in Idx(candidates) : candidates[j].ik = internal_keys[a]
        /\ IF internal_keys = <<>>
           THEN summary.min_score = 0 /\ summary.avg_score = 0
           ELSE /\ \E j \in Idx(candidates) : candidates[j].score = summary.min_score
                /\ \A j \in Idx(candidates) : summary.min_score <= candidates[j].score
                /\ IsRoundedMean(summary.avg_score, TotalUpTo(Len(candidates)),
                                 Len(candidates))
        /\ (\E j \in Idx(candidates) : candidates[j].method \in {"", "conflict"})
              => summary.min_score = 0

\* a conflict loser next to a winner with a positive score below the threshold
C13_Witness ==
    /\ Returning
    /\ \E j \in Idx(candidates) : candidates[j].method = "conflict"
    /\ \E j \in Idx(candidates) :
          candidates[j].score > 0 /\ candidates[j].score < accept_threshold
    /\ summary.min_score = 0
    /\ summary.avg_score > 0

\* C14: the result (suggestions, final_mapping, summary) does not depend on
\* auto_apply_threshold: a second call with the same internal_keys,
\* remote_fields and accept_threshold and another auto_apply_threshold returns
\* the same result as the first.
C14_ResultIgnoresAutoApply ==
    (Returning /\ first_result # <<>>) => first_result[1] = Result

\* a second call has returned, and a key it accepted has a score that lies
\* between the auto_apply_threshold of the two calls
C14_Witness ==
    /\ Returning
    /\ first_result # <<>>
    /\ auto_apply_threshold \notin AutoApplyThresholds
    /\ \E j \in Idx(candidates) :
          /\ MappedAt(candidates[j].ik) # {}
          /\ \E t \in AutoApplyThresholds :
                \/ auto_apply_threshold <= candidates[j].score /\ candidates[j].score < t
                \/ t <= candidates[j].score /\ candidates[j].score < auto_apply_threshold

\* C15: auto_generate_mapping never raises for malformed or empty input:
\* with empty lists, empty-string names and missing (None) names it still
\* returns a result.
C15_NeverRaises == pc # "raised"

\* the dedupe key of the file the import loop is at
CurrentKey == dedupe_keys[file]

\* the last request sent while handling the current file
LastRequest == http[Len(http)]

\* id is prefix + key with every space of key replaced by "_"
IsPrefixedKey(id, prefix, key) ==
    /\ Len(id) = Len(prefix) + Len(key)
    /\ \A n \in Idx(prefix) : id[n] = prefix[n]
    /\ \A n \in Idx(key) : id[Len(prefix) + n] = (IF key[n] = " " THEN "_" ELSE key[n])

\* r is the returned record prefix + key with the fields passed in
IsRecordOf(r, prefix, key) ==
    /\ r.kind = "returned"
    /\ IsPrefixedKey(r.id, prefix, key)
    /\ r.fields = Payload(file)

\* upsert_record has just returned or raised
UpsertDone == ipc = "record"

\* C16: upsert_record returns, without raising, the record with id "mock-" +
\* key_value (spaces replaced by "_") and the supplied fields when Airtable is
\* not configured or the create is answered 401/403; when the create is
\* answered 422 or another HTTP error it raises and returns no record.
C16_UpsertOutcomes ==
    UpsertDone =>
        /\ ~configured => IsRecordOf(rec, <<"m","o","c","k","-">>, CurrentKey)
        /\ (configured /\ LastRequest.method = "POST")
              => IF LastRequest.answer \in {"401", "403"}
                 THEN IsRecordOf(rec, <<"m","o","c","k","-">>, CurrentKey)
                 ELSE IF LastRequest.answer \in {"422", "500"}
                 THEN rec = Raised
                 ELSE TRUE

\* a create for a key with a space was answered 403
C16_Witness ==
    /\ UpsertDone
    /\ configured
    /\ LastRequest.method = "POST"
    /\ LastRequest.answer = "403"
    /\ \E n \in Idx(CurrentKey) : CurrentKey[n] = " "
    /\ rec.kind = "returned"

\* C17: in a configured run a POST for a key is sent only after an existence
\* check for that key has answered false or failed; when a check answers true
\* no write follows for that key: upsert_record returns the "exists-" record
\* without a POST, the import loop records skipped_exists and does not call
\* upsert_record; in dry-run mode upsert_record is never called.
C17_CheckBeforeCreate ==
    /\ \A p \in Idx(http) :
          http[p].method = "POST" =>
              /\ p > 1
              /\ \A q \in 1..(p - 1) :
                    /\ http[q].method = "GET"
                    /\ http[q].key = http[p].key
                    /\ http[q].answer # "found"
    /\ \A p \in Idx(http) :
          (http[p].method = "GET" /\ http[p].answer = "found") => p = Len(http)
    /\ (UpsertDone /\ http # <<>> /\ LastRequest.method = "GET")
          => /\ LastRequest.answer = "found"
             /\ IsRecordOf(rec, <<"e","x","i","s","t","s","-">>, CurrentKey)
    /\ exists =>
          /\ ~called
          /\ Len(http) = 1
          /\ http[1].answer = "found"
          /\ ipc = "next" => details[file] = "skipped_exists"
    /\ dry_run =>
          /\ ~called
          /\ \A p \in Idx(http) : http[p].method = "GET"
          /\ \A n \in Idx(details) : details[n] # "inserted"

\* a file was skipped as existing and a later one was created after two
\* checks that found nothing
C17_Witness ==
    /\ UpsertDone
    /\ Len(http) = 3
    /\ LastRequest.method = "POST"
    /\ \E n \in Idx(details) : details[n] = "skipped_exists"

\* C18: when several internal keys claim the same remote field with exactly
\* equal (rounded) top scores, the one that comes first in internal_keys keeps
\* the field and every later tied key becomes a conflict.
C18_FirstTiedKeyWins ==
    pc \in {"accept", "done"} =>
        \A a, b \in Idx(raw) :
            (/\ a < b
             /\ b \in RawClaimants(raw[a].field)
             /\ a \in RawClaimants(raw[a].field)
             /\ raw[a].score = raw[b].score
             /\ \A m \in RawClaimants(raw[a].field) : raw[m].score <= raw[a].score
             /\ \A m \in RawClaimants(raw[a].field) :
                   raw[m].score = raw[a].score => a <= m)
            => /\ candidates[a] = raw[a]
               /\ candidates[b] = Conflict(raw[b].ik)

=============================================================================
